---- MODULE Spec2Model ----
(***************************************************************************)
(* Model of nucleus/io/fasta.py: the in-memory reference reader            *)
(* (InMemoryRefReader) and the thin wrapper around the indexed reader      *)
(* (RefFastaReader).                                                       *)
(*                                                                         *)
(* Strings of bases are sequences of one-character strings.  Python        *)
(* exceptions are records [ok |-> FALSE, exc |-> type, msg |-> message     *)
(* prefix]; a normal return is [ok |-> TRUE, value |-> v].                 *)
(***************************************************************************)
EXTENDS Integers, Sequences, FiniteSets, TLC

\* ------------------------------------------------------------------ bounds
MaxEntries == 2
MaxStart == 1
MaxBases == 2

Names == {"1", "2"}
Alphabet == {"A", "C"}
RegionNames == Names \cup {"chrZ"}
MaxCoord == MaxStart + MaxBases + 1
Coords == -1 .. MaxCoord

BaseStrings == UNION {[1..n -> Alphabet] : n \in 0..MaxBases}
Entries == [name : Names, start : -1..MaxStart, bases : BaseStrings]
InputLists == UNION {[1..n -> Entries] : n \in 0..MaxEntries}
Regions == [reference_name : RegionNames, start : Coords, end : Coords]

\* ------------------------------------------------------------ Python values
Ok(v) == [ok |-> TRUE, value |-> v, exc |-> "", msg |-> ""]
Raise(type, message) == [ok |-> FALSE, value |-> <<>>, exc |-> type, msg |-> message]

MsgStart == "start must be >= for chromosome"
MsgDuplicate == "Duplicate chromosome detect"
MsgNoBases == "Bases must contain at least one base"
MsgMalformed == "Malformed query region"
MsgUnknownRef == "Unknown reference_name in"
MsgCannotQuery == "Cannot query region as this InMemoryRefReader only has bases"
MsgUnknownContig == "Unknown contig"
MsgIterate == "Can not iterate through a FASTA file"

NoCall == [op |-> "none", arg |-> "", result |-> Ok(<<>>)]
NoHeader == [set |-> FALSE, contigs |-> <<>>]
NoChroms == [n \in {} |-> 0]

\* Python's s[lo:hi]: a negative index counts from the end, and both indices
\* are clamped to [0, len(s)].
ClampIndex(k, n) == IF k < 0 THEN (IF k + n < 0 THEN 0 ELSE k + n)
                    ELSE (IF k > n THEN n ELSE k)

PySlice(s, lo, hi) ==
    LET a == ClampIndex(lo, Len(s))
        b == ClampIndex(hi, Len(s))
    IN  IF a < b THEN [k \in 1..(b - a) |-> s[a + k]] ELSE <<>>

\* ------------------------------------------------------------------- state
VARIABLES chromosomes, i, status, chroms, contigs, header, ctorErr, last, call,
          backend, fasta, cache_size, rd, exited, flast

memVars == <<chromosomes, i, status, chroms, contigs, header, ctorErr, last, call>>
faiVars == <<backend, fasta, cache_size, rd, exited, flast>>
vars == <<memVars, faiVars>>

Callers == {"t1", "t2"}
ConcCoords == 0 .. MaxBases
ConcRegions == [reference_name : {"1", "chrZ"}, start : ConcCoords, end : ConcCoords]
ConcInputs == UNION {[1..n -> Entries] : n \in 0..1}
Idle == [pc |-> "idle", op |-> "none", arg |-> "", tmp |-> <<>>, result |-> Ok(<<>>)]

\* ------------------------------------------------- the indexed reference
\* The reference genome on disk: per contig a header line and the bases
\* wrapped at bases_per_line, and the index entries describing that layout.
MaxBasesPerLine == 3
MaxCacheArg == 2
None == -1
DefaultCacheSize == 65536
Runs == {1, 2}
CacheArgs == {None} \cup (0 .. MaxCacheArg)

Genome == << [name |-> "1", seq |-> <<"A", "C", "G", "T", "A">>],
             [name |-> "2", seq |-> <<"T", "G">>] >>
FaiCoords == -1 .. 6
FaiRegions == [reference_name : RegionNames, start : FaiCoords, end : FaiCoords]

Min(a, b) == IF a < b THEN a ELSE b
Max(a, b) == IF a > b THEN a ELSE b

RECURSIVE WrapLines(_, _)
WrapLines(seq, bpl) ==
    IF seq = <<>> THEN <<>>
    ELSE LET n == Min(bpl, Len(seq))
         IN  SubSeq(seq, 1, n) \o <<"\n">> \o WrapLines(SubSeq(seq, n + 1, Len(seq)), bpl)

ContigRecord(c, bpl) == <<">", c.name, "\n">> \o WrapLines(c.seq, bpl)

RECURSIVE FastaBytes(_, _)
FastaBytes(k, bpl) ==
    IF k > Len(Genome) THEN <<>>
    ELSE ContigRecord(Genome[k], bpl) \o FastaBytes(k + 1, bpl)

RECURSIVE RecordStart(_, _)
RecordStart(k, bpl) ==
    IF k = 1 THEN 0 ELSE RecordStart(k - 1, bpl) + Len(ContigRecord(Genome[k - 1], bpl))

FaiIndex(bpl) ==
    [k \in 1..Len(Genome) |->
        [name |-> Genome[k].name, seq_length |-> Len(Genome[k].seq),
         offset |-> RecordStart(k, bpl) + 3,
         bases_per_line |-> bpl, bytes_per_line |-> bpl + 1]]

FastaFile(bpl) == [bytes |-> FastaBytes(1, bpl), index |-> FaiIndex(bpl)]
NoFasta == [bytes |-> <<>>, index |-> <<>>]

NoWindow == [reference_name |-> "", start |-> 0, end |-> 0, bases |-> <<>>]
NoReader == [capacity |-> 0, window |-> NoWindow, closed |-> TRUE]
NoFaiCall == [op |-> "none", arg |-> "", result |-> [r \in Runs |-> Ok(<<>>)],
              hit |-> [r \in Runs |-> FALSE]]

\* --------------------------------------- the underlying indexed reader
IndexNames(index) == {index[k].name : k \in 1..Len(index)}
IndexEntry(index, n) == index[CHOOSE k \in 1..Len(index) : index[k].name = n]

ByteOffset(e, coord) ==
    e.offset + (coord \div e.bases_per_line) * e.bytes_per_line
             + (coord % e.bases_per_line)

ByteRangeFor(e, start, end) == <<ByteOffset(e, start), ByteOffset(e, end - 1)>>

ReadBytes(bytes, first, last_byte) ==
    [k \in 1..(last_byte - first + 1) |-> bytes[first + k]]

StripNewlines(s) == SelectSeq(s, LAMBDA b : b /= "\n")

FaiValidate(index, region) ==
    IF region.start > region.end THEN Raise("InvalidRegionError", "")
    ELSE IF region.reference_name \notin IndexNames(index)
         THEN Raise("UnknownContigError", "")
    ELSE IF region.start < 0
            \/ region.end > IndexEntry(index, region.reference_name).seq_length
         THEN Raise("OutOfBoundsError", "")
    ELSE Ok(TRUE)

CacheLookupHit(w, region) ==
    /\ w.reference_name = region.reference_name
    /\ w.start <= region.start
    /\ region.end <= w.end

WindowSlice(w, region) ==
    SubSeq(w.bases, region.start - w.start + 1, region.end - w.start)

\* The window fetched on a miss: max(len(region), capacity) bases from
\* region.start, cut at the end of the contig.
RefreshForMiss(fa, region, capacity) ==
    LET e == IndexEntry(fa.index, region.reference_name)
        size == Max(region.end - region.start, capacity)
        wend == Min(region.start + size, e.seq_length)
        range == ByteRangeFor(e, region.start, wend)
    IN  [reference_name |-> region.reference_name, start |-> region.start, end |-> wend,
         bases |-> IF wend = region.start THEN <<>>
                   ELSE StripNewlines(ReadBytes(fa.bytes, range[1], range[2]))]

FromFile(capacity) == [capacity |-> capacity, window |-> NoWindow, closed |-> FALSE]

FaiBases(reader, fa, region) ==
    IF reader.closed
    THEN [res |-> Raise("ClosedReaderError", ""), rd |-> reader, hit |-> FALSE]
    ELSE IF ~FaiValidate(fa.index, region).ok
    THEN [res |-> FaiValidate(fa.index, region), rd |-> reader, hit |-> FALSE]
    ELSE IF CacheLookupHit(reader.window, region)
    THEN [res |-> Ok(WindowSlice(reader.window, region)), rd |-> reader, hit |-> TRUE]
    ELSE LET w == RefreshForMiss(fa, region, reader.capacity)
         IN  [res |-> Ok(WindowSlice(w, region)),
              rd |-> [reader EXCEPT !.window = w], hit |-> FALSE]

FaiIsValidInterval(reader, fa, region) ==
    IF reader.closed THEN Raise("ClosedReaderError", "")
    ELSE Ok(FaiValidate(fa.index, region).ok)

FaiContig(reader, fa, contig_name) ==
    IF reader.closed THEN Raise("ClosedReaderError", "")
    ELSE IF contig_name \notin IndexNames(fa.index) THEN Raise("UnknownContigError", "")
    ELSE LET k == CHOOSE j \in 1..Len(fa.index) : fa.index[j].name = contig_name
         IN  Ok([name |-> contig_name, n_bases |-> fa.index[k].seq_length,
                 pos_in_fasta |-> k - 1])

FaiClose(reader) == [reader EXCEPT !.closed = TRUE, !.window = NoWindow]

\* ------------------------------------------------------ RefFastaReader
\* Variant: "if not cache_size" - 0 is replaced by the default as well.
ConfiguredCapacityFalsy(size) ==
    IF size = None \/ size = 0 THEN DefaultCacheSize ELSE size

\* __init__: the capacity the underlying reader is opened with.
ConfiguredCapacity(size) == IF size = None THEN DefaultCacheSize ELSE size

RefFastaQuery(reader, fa, region) == FaiBases(reader, fa, region)

RefFastaIsValid(reader, fa, region) == FaiIsValidInterval(reader, fa, region)

RefFastaContig(reader, fa, contig_name) == FaiContig(reader, fa, contig_name)

\* Variant: iterate asks the underlying reader first, which refuses when closed.
RefFastaIterateChecksClosed(reader) ==
    IF reader.closed THEN Raise("ClosedReaderError", "")
    ELSE Raise("NotImplementedError", MsgIterate)

RefFastaIterate(reader) == Raise("NotImplementedError", MsgIterate)

\* Variant: __exit__ does not reach the underlying reader.
RefFastaExitNoDelegate(reader) == reader

\* __exit__ hands over to the underlying reader's __exit__, which closes it.
RefFastaExit(reader) == FaiClose(reader)

\* --------------------------------------------- InMemoryRefReader.__init__
\* Variant: the duplicate-name check is left out.
CheckEntryNoDuplicateCheck(ch, e) ==
    IF e.start < 0 THEN Raise("ValueError", MsgStart)
    ELSE IF e.bases = <<>> THEN Raise("ValueError", MsgNoBases)
    ELSE Ok(TRUE)

\* The three checks at the top of the loop body, in the order of the code.
CheckEntry(ch, e) ==
    IF e.start < 0 THEN Raise("ValueError", MsgStart)
    ELSE IF e.name \in DOMAIN ch THEN Raise("ValueError", MsgDuplicate)
    ELSE IF e.bases = <<>> THEN Raise("ValueError", MsgNoBases)
    ELSE Ok(TRUE)

\* Variant: end is the number of bases held instead of start + len(bases).
InMemoryChromosomeLen(start, bases) ==
    [start |-> start, end |-> Len(bases), bases |-> bases]

InMemoryChromosome(start, bases) ==
    [start |-> start, end |-> start + Len(bases), bases |-> bases]

ContigInfo(name, end, pos) == [name |-> name, n_bases |-> end, pos_in_fasta |-> pos]

MemInitFrom(inputs) ==
    /\ chromosomes \in inputs
    /\ i = 0
    /\ status = "building"
    /\ chroms = NoChroms
    /\ contigs = <<>>
    /\ header = NoHeader
    /\ ctorErr = Ok(TRUE)
    /\ last = NoCall
    /\ call = [c \in Callers |-> Idle]
    /\ backend = "mem"
    /\ fasta = NoFasta
    /\ cache_size = [r \in Runs |-> None]
    /\ rd = [r \in Runs |-> NoReader]
    /\ exited = FALSE
    /\ flast = NoFaiCall

\* One iteration of the loop that passes the checks.
CtorIter ==
    /\ status = "building"
    /\ i < Len(chromosomes)
    /\ LET e == chromosomes[i + 1]
           c == InMemoryChromosome(e.start, e.bases)
       IN  /\ CheckEntry(chroms, e).ok
           /\ chroms' = [n \in DOMAIN chroms \cup {e.name} |->
                            IF n = e.name THEN c ELSE chroms[n]]
           /\ contigs' = Append(contigs, ContigInfo(e.name, c.end, i))
    /\ i' = i + 1
    /\ UNCHANGED <<chromosomes, status, header, ctorErr, last, call>>
    /\ UNCHANGED faiVars

\* One iteration of the loop that raises: the constructor is left and no
\* reader object is formed.
CtorRaise ==
    /\ status = "building"
    /\ i < Len(chromosomes)
    /\ ~CheckEntry(chroms, chromosomes[i + 1]).ok
    /\ ctorErr' = CheckEntry(chroms, chromosomes[i + 1])
    /\ status' = "failed"
    /\ UNCHANGED <<chromosomes, i, chroms, contigs, header, last, call>>
    /\ UNCHANGED faiVars

\* After the loop: self.header = RefFastaHeader(contigs=contigs).
CtorDone ==
    /\ status = "building"
    /\ i = Len(chromosomes)
    /\ header' = [set |-> TRUE, contigs |-> contigs]
    /\ status' = "built"
    /\ UNCHANGED <<chromosomes, i, chroms, contigs, ctorErr, last, call>>
    /\ UNCHANGED faiVars

\* --------------------------------------------- InMemoryRefReader methods
\* Variant: the membership check comes before the malformed-region check.
LookupCheckUnknownFirst(ch, region) ==
    IF region.reference_name \notin DOMAIN ch
    THEN Raise("ValueError", MsgUnknownRef)
    ELSE IF region.start > region.end THEN Raise("ValueError", MsgMalformed)
    ELSE Ok(TRUE)

\* _lookup_chromosome, first half: the malformed-region and membership checks.
LookupCheck(ch, region) ==
    IF region.start > region.end THEN Raise("ValueError", MsgMalformed)
    ELSE IF region.reference_name \notin DOMAIN ch
         THEN Raise("ValueError", MsgUnknownRef)
    ELSE Ok(TRUE)

\* Variant: the region is checked against [0, end) instead of [start, end).
LookupFetchFromZero(ch, region) ==
    IF region.reference_name \notin DOMAIN ch
    THEN Raise("KeyError", region.reference_name)
    ELSE LET c == ch[region.reference_name]
         IN  IF region.start < 0 \/ region.end > c.end
             THEN Raise("ValueError", MsgCannotQuery)
             ELSE Ok(c)

\* _lookup_chromosome, second half: self._chroms[name] (a KeyError when the
\* key is not there) and the window check.
LookupFetch(ch, region) ==
    IF region.reference_name \notin DOMAIN ch
    THEN Raise("KeyError", region.reference_name)
    ELSE LET c == ch[region.reference_name]
         IN  IF region.start < c.start \/ region.end > c.end
             THEN Raise("ValueError", MsgCannotQuery)
             ELSE Ok(c)

LookupChromosome(ch, region) ==
    IF LookupCheck(ch, region).ok THEN LookupFetch(ch, region)
    ELSE LookupCheck(ch, region)

\* Variant: the lookup removes the entry it read (dict.pop).
ChromsAfterLookupPop(ch, region) ==
    [n \in DOMAIN ch \ {region.reference_name} |-> ch[n]]

\* _lookup_chromosome only reads self._chroms: the map it leaves behind.
ChromsAfterLookup(ch, region) == ch

\* Variant: the slice is taken at genomic coordinates, not window offsets.
QuerySliceAbsolute(c, region) == PySlice(c.bases, region.start, region.end)

\* return bases[region.start - start:region.end - start]
QuerySlice(c, region) == PySlice(c.bases, region.start - c.start, region.end - c.start)

MemQueryResult(ch, region) ==
    LET lk == LookupChromosome(ch, region)
    IN  IF lk.ok
        THEN Ok(QuerySlice(lk.value, region))
        ELSE lk

\* Variant: the handler catches KeyError instead of ValueError.
IsValidHandlerKeyError(lk) ==
    IF lk.ok THEN Ok(TRUE)
    ELSE IF lk.exc = "KeyError" THEN Ok(FALSE)
    ELSE lk

\* try: ...; return True   except ValueError: return False
IsValidHandler(lk) ==
    IF lk.ok THEN Ok(TRUE)
    ELSE IF lk.exc = "ValueError" THEN Ok(FALSE)
    ELSE lk

MemIsValidResult(ch, region) == IsValidHandler(LookupChromosome(ch, region))

RECURSIVE FindContig(_, _, _)
FindContig(cs, k, contig_name) ==
    IF k > Len(cs) THEN Raise("ValueError", MsgUnknownContig)
    ELSE IF cs[k].name = contig_name THEN Ok(cs[k])
    ELSE FindContig(cs, k + 1, contig_name)

MemContigResult(hdr, contig_name) == FindContig(hdr.contigs, 1, contig_name)

MemIterateResult == Raise("NotImplementedError", MsgIterate)

MemQuery ==
    /\ status = "built"
    /\ last = NoCall
    /\ \E r \in Regions :
          last' = [op |-> "query", arg |-> r, result |-> MemQueryResult(chroms, r)]
    /\ UNCHANGED <<chromosomes, i, status, chroms, contigs, header, ctorErr, call>>
    /\ UNCHANGED faiVars

MemIsValid ==
    /\ status = "built"
    /\ last = NoCall
    /\ \E r \in Regions :
          last' = [op |-> "is_valid", arg |-> r, result |-> MemIsValidResult(chroms, r)]
    /\ UNCHANGED <<chromosomes, i, status, chroms, contigs, header, ctorErr, call>>
    /\ UNCHANGED faiVars

MemContig ==
    /\ status = "built"
    /\ last = NoCall
    /\ \E n \in RegionNames :
          last' = [op |-> "contig", arg |-> n, result |-> MemContigResult(header, n)]
    /\ UNCHANGED <<chromosomes, i, status, chroms, contigs, header, ctorErr, call>>
    /\ UNCHANGED faiVars

MemIterate ==
    /\ status = "built"
    /\ last = NoCall
    /\ last' = [op |-> "iterate", arg |-> "", result |-> MemIterateResult]
    /\ UNCHANGED <<chromosomes, i, status, chroms, contigs, header, ctorErr, call>>
    /\ UNCHANGED faiVars

\* The caller has consumed the result (or handled the exception) of its call
\* and is ready to make the next one.
MemReturn ==
    /\ status = "built"
    /\ last /= NoCall
    /\ last' = NoCall
    /\ UNCHANGED <<chromosomes, i, status, chroms, contigs, header, ctorErr, call>>
    /\ UNCHANGED faiVars

\* ----------------------------------------- concurrent callers, step by step
\* Each caller runs the method bodies one statement group at a time; the
\* steps of different callers interleave freely.
Finish(c, res) ==
    [call EXCEPT ![c].pc = "done",
                 ![c].result = IF call[c].op = "is_valid" THEN IsValidHandler(res) ELSE res]

ConcCall(c) ==
    /\ status = "built"
    /\ call[c].pc = "idle"
    /\ \E o \in {"query", "is_valid"}, r \in ConcRegions :
          call' = [call EXCEPT ![c] = [pc |-> "check", op |-> o, arg |-> r,
                                       tmp |-> <<>>, result |-> Ok(<<>>)]]
    /\ UNCHANGED <<chromosomes, i, status, chroms, contigs, header, ctorErr, last>>
    /\ UNCHANGED faiVars

ConcCheck(c) ==
    /\ call[c].pc = "check"
    /\ LET res == LookupCheck(chroms, call[c].arg)
       IN  call' = IF res.ok THEN [call EXCEPT ![c].pc = "fetch"] ELSE Finish(c, res)
    /\ UNCHANGED <<chromosomes, i, status, chroms, contigs, header, ctorErr, last>>
    /\ UNCHANGED faiVars

ConcFetch(c) ==
    /\ call[c].pc = "fetch"
    /\ LET res == LookupFetch(chroms, call[c].arg)
       IN  call' = IF res.ok /\ call[c].op = "query"
                   THEN [call EXCEPT ![c].pc = "slice", ![c].tmp = res.value]
                   ELSE Finish(c, res)
    /\ chroms' = ChromsAfterLookup(chroms, call[c].arg)
    /\ UNCHANGED <<chromosomes, i, status, contigs, header, ctorErr, last>>
    /\ UNCHANGED faiVars

ConcSlice(c) ==
    /\ call[c].pc = "slice"
    /\ call' = Finish(c, Ok(QuerySlice(call[c].tmp, call[c].arg)))
    /\ UNCHANGED <<chromosomes, i, status, chroms, contigs, header, ctorErr, last>>
    /\ UNCHANGED faiVars

ConcContig(c) ==
    /\ status = "built"
    /\ call[c].pc = "idle"
    /\ \E n \in RegionNames :
          call' = [call EXCEPT ![c] = [pc |-> "done", op |-> "contig", arg |-> n,
                      tmp |-> <<>>, result |-> MemContigResult(header, n)]]
    /\ UNCHANGED <<chromosomes, i, status, chroms, contigs, header, ctorErr, last>>
    /\ UNCHANGED faiVars

ConcIterate(c) ==
    /\ status = "built"
    /\ call[c].pc = "idle"
    /\ call' = [call EXCEPT ![c] = [pc |-> "done", op |-> "iterate", arg |-> "",
                    tmp |-> <<>>, result |-> MemIterateResult]]
    /\ UNCHANGED <<chromosomes, i, status, chroms, contigs, header, ctorErr, last>>
    /\ UNCHANGED faiVars

ConcReturn(c) ==
    /\ call[c].pc = "done"
    /\ call' = [call EXCEPT ![c] = Idle]
    /\ UNCHANGED <<chromosomes, i, status, chroms, contigs, header, ctorErr, last>>
    /\ UNCHANGED faiVars

ConcNext ==
    \/ CtorIter
    \/ CtorRaise
    \/ CtorDone
    \/ \E c \in Callers : ConcCall(c)
    \/ \E c \in Callers : ConcCheck(c)
    \/ \E c \in Callers : ConcFetch(c)
    \/ \E c \in Callers : ConcSlice(c)
    \/ \E c \in Callers : ConcContig(c)
    \/ \E c \in Callers : ConcIterate(c)
    \/ \E c \in Callers : ConcReturn(c)

\* ------------------------------------- RefFastaReader: two runs in lockstep
\* The same program is run twice on the same file, run r with cache_size[r];
\* every operation is applied to both runs.
MemAbsent ==
    /\ chromosomes = <<>>
    /\ i = 0
    /\ status = "absent"
    /\ chroms = NoChroms
    /\ contigs = <<>>
    /\ header = NoHeader
    /\ ctorErr = Ok(TRUE)
    /\ last = NoCall
    /\ call = [c \in Callers |-> Idle]

FaiInit ==
    /\ MemAbsent
    /\ backend = "fai"
    /\ \E bpl \in 1..MaxBasesPerLine : fasta = FastaFile(bpl)
    /\ cache_size \in [Runs -> CacheArgs]
    /\ rd = [r \in Runs |-> FromFile(ConfiguredCapacity(cache_size[r]))]
    /\ exited = FALSE
    /\ flast = NoFaiCall

FaiQuery ==
    /\ backend = "fai"
    /\ flast = NoFaiCall
    /\ \E region \in FaiRegions :
          /\ flast' = [op |-> "query", arg |-> region,
                       result |-> [r \in Runs |-> RefFastaQuery(rd[r], fasta, region).res],
                       hit |-> [r \in Runs |-> RefFastaQuery(rd[r], fasta, region).hit]]
          /\ rd' = [r \in Runs |-> RefFastaQuery(rd[r], fasta, region).rd]
    /\ UNCHANGED <<backend, fasta, cache_size, exited>>
    /\ UNCHANGED memVars

FaiIsValid ==
    /\ backend = "fai"
    /\ flast = NoFaiCall
    /\ \E region \in FaiRegions :
          flast' = [op |-> "is_valid", arg |-> region,
                    result |-> [r \in Runs |-> RefFastaIsValid(rd[r], fasta, region)],
                    hit |-> [r \in Runs |-> FALSE]]
    /\ UNCHANGED <<backend, fasta, cache_size, rd, exited>>
    /\ UNCHANGED memVars

FaiContigCall ==
    /\ backend = "fai"
    /\ flast = NoFaiCall
    /\ \E n \in RegionNames :
          flast' = [op |-> "contig", arg |-> n,
                    result |-> [r \in Runs |-> RefFastaContig(rd[r], fasta, n)],
                    hit |-> [r \in Runs |-> FALSE]]
    /\ UNCHANGED <<backend, fasta, cache_size, rd, exited>>
    /\ UNCHANGED memVars

FaiIterate ==
    /\ backend = "fai"
    /\ flast = NoFaiCall
    /\ flast' = [op |-> "iterate", arg |-> "",
                 result |-> [r \in Runs |-> RefFastaIterate(rd[r])],
                 hit |-> [r \in Runs |-> FALSE]]
    /\ UNCHANGED <<backend, fasta, cache_size, rd, exited>>
    /\ UNCHANGED memVars

\* Leaving the with-block (again, if it was left before).
FaiExit ==
    /\ backend = "fai"
    /\ flast = NoFaiCall
    /\ rd' = [r \in Runs |-> RefFastaExit(rd[r])]
    /\ exited' = TRUE
    /\ flast' = [op |-> "exit", arg |-> "", result |-> [r \in Runs |-> Ok(<<>>)],
                 hit |-> [r \in Runs |-> FALSE]]
    /\ UNCHANGED <<backend, fasta, cache_size>>
    /\ UNCHANGED memVars

FaiReturn ==
    /\ backend = "fai"
    /\ flast /= NoFaiCall
    /\ flast' = NoFaiCall
    /\ UNCHANGED <<backend, fasta, cache_size, rd, exited>>
    /\ UNCHANGED memVars

MemInit == MemInitFrom(InputLists)

ConcInit == MemInitFrom(ConcInputs)

Init == MemInit \/ FaiInit

Next ==
    \/ CtorIter
    \/ CtorRaise
    \/ CtorDone
    \/ MemQuery
    \/ MemIsValid
    \/ MemContig
    \/ MemIterate
    \/ MemReturn
    \/ FaiQuery
    \/ FaiIsValid
    \/ FaiContigCall
    \/ FaiIterate
    \/ FaiExit
    \/ FaiReturn

Spec == Init /\ [][Next]_vars

SpecConc == ConcInit /\ [][ConcNext]_vars

\* =============================================================== properties
InputNames == {chromosomes[k].name : k \in 1..Len(chromosomes)}
InputEntry(n) == CHOOSE e \in {chromosomes[k] : k \in 1..Len(chromosomes)} : e.name = n

ValidInput(l) ==
    \A k \in 1..Len(l) :
        /\ l[k].start >= 0
        /\ l[k].bases /= <<>>
        /\ \A j \in 1..Len(l) : j /= k => l[j].name /= l[k].name

\* C1: a query that succeeds returns exactly end - start characters, and the
\* k-th of them is the base the input entry of that name holds at genomic
\* coordinate region.start + k; a region with start = end gives the empty
\* sequence.
C1_QueryReturnsStoredBases ==
    (status = "built" /\ last.op = "query" /\ last.result.ok) =>
        LET r == last.arg
            out == last.result.value
        IN  /\ r.reference_name \in InputNames
            /\ Len(out) = r.end - r.start
            /\ \A k \in 0..(r.end - r.start - 1) :
                  LET e == InputEntry(r.reference_name)
                      at == r.start - e.start + k + 1
                  IN  at \in 1..Len(e.bases) /\ out[k + 1] = e.bases[at]

C1_Witness ==
    /\ status = "built" /\ last.op = "query" /\ last.result.ok
    /\ Len(last.result.value) = 1
    /\ last.arg.start > chroms[last.arg.reference_name].start
    /\ chroms[last.arg.reference_name].start > 0

\* C2: is_valid(r) never raises, returns a boolean, and returns True exactly
\* when query(r) on the same reader returns bases.
C2_IsValidIffQuerySucceeds ==
    (status = "built" /\ last.op = "is_valid") =>
        /\ last.result.ok
        /\ last.result.value \in BOOLEAN
        /\ last.result.value <=> MemQueryResult(chroms, last.arg).ok

C2_Witness ==
    /\ status = "built" /\ last.op = "is_valid"
    /\ last.result = Ok(FALSE)
    /\ last.arg.start < 0
    /\ last.arg.reference_name \in DOMAIN chroms

\* C3: a well-formed query on a stored contig that begins before the held
\* window or ends after it raises the out-of-window error and returns no
\* bases.
C3_OutsideWindowRejected ==
    (/\ status = "built" /\ last.op = "query"
     /\ last.arg.reference_name \in DOMAIN chroms
     /\ last.arg.start <= last.arg.end
     /\ \/ last.arg.start < chroms[last.arg.reference_name].start
        \/ last.arg.end > chroms[last.arg.reference_name].end)
    => last.result = Raise("ValueError", MsgCannotQuery)

C3_Witness ==
    /\ status = "built" /\ last.op = "query"
    /\ last.arg.reference_name \in DOMAIN chroms
    /\ 0 <= last.arg.start /\ last.arg.start < last.arg.end
    /\ last.arg.end <= chroms[last.arg.reference_name].start
    /\ last.result = Raise("ValueError", MsgCannotQuery)

\* C4: query reports a malformed region first, then an unknown reference
\* name, then a region outside the held window, each with its own message.
C4_ErrorPrecedence ==
    (status = "built" /\ last.op = "query") =>
        LET r == last.arg
            known == r.reference_name \in DOMAIN chroms
        IN  /\ Cardinality({MsgMalformed, MsgUnknownRef, MsgCannotQuery}) = 3
            /\ r.start > r.end => last.result = Raise("ValueError", MsgMalformed)
            /\ (r.start <= r.end /\ ~known)
                  => last.result = Raise("ValueError", MsgUnknownRef)
            /\ (r.start <= r.end /\ known /\ ~last.result.ok)
                  => last.result = Raise("ValueError", MsgCannotQuery)

C4_Witness ==
    /\ status = "built" /\ last.op = "query"
    /\ last.arg.start > last.arg.end
    /\ last.arg.reference_name \notin DOMAIN chroms
    /\ last.result = Raise("ValueError", MsgMalformed)

\* C5: the constructor completes exactly for lists whose starts are all
\* >= 0, whose bases are all non-empty and whose names are pairwise distinct;
\* otherwise it raises ValueError, no header is set and no call is served.
C5_BuildSucceedsIffValid ==
    /\ status = "built" => ValidInput(chromosomes)
    /\ status = "failed" =>
          /\ ~ValidInput(chromosomes)
          /\ ~ctorErr.ok /\ ctorErr.exc = "ValueError"
          /\ header = NoHeader
          /\ last = NoCall
    /\ (status = "building" /\ i = Len(chromosomes)) => ValidInput(chromosomes)

C5_Witness ==
    /\ status = "failed"
    /\ i >= 1
    /\ ctorErr = Raise("ValueError", MsgDuplicate)

\* C6: after a successful build the header lists one ContigInfo per input
\* entry, in input order, with n_bases = start + len(bases) and
\* pos_in_fasta = the 0-based input index; contig(name) returns that record,
\* and the stored chromosome has end = start + len(bases).
C6_HeaderMatchesInput ==
    status = "built" =>
        /\ header.set
        /\ Len(header.contigs) = Len(chromosomes)
        /\ DOMAIN chroms = InputNames
        /\ \A k \in 1..Len(chromosomes) :
              LET e == chromosomes[k]
                  info == [name |-> e.name, n_bases |-> e.start + Len(e.bases),
                           pos_in_fasta |-> k - 1]
              IN  /\ header.contigs[k] = info
                  /\ (last.op = "contig" /\ last.arg = e.name) => last.result = Ok(info)
                  /\ chroms[e.name].start = e.start
                  /\ chroms[e.name].bases = e.bases
                  /\ chroms[e.name].end = chroms[e.name].start + Len(chroms[e.name].bases)

C6_Witness ==
    /\ status = "built"
    /\ Len(chromosomes) = 2
    /\ chromosomes[2].start > 0
    /\ last.op = "contig" /\ last.arg = chromosomes[2].name
    /\ last.result.ok /\ last.result.value.pos_in_fasta = 1

\* The reader a fresh construction from the same input gives.
FreshChroms(l) ==
    [n \in {l[k].name : k \in 1..Len(l)} |->
        LET e == CHOOSE x \in {l[k] : k \in 1..Len(l)} : x.name = n
        IN  [start |-> e.start, end |-> e.start + Len(e.bases), bases |-> e.bases]]

FreshHeader(l) ==
    [set |-> TRUE,
     contigs |-> [k \in 1..Len(l) |->
                    [name |-> l[k].name, n_bases |-> l[k].start + Len(l[k].bases),
                     pos_in_fasta |-> k - 1]]]

AloneResult(op, arg) ==
    CASE op = "query" -> MemQueryResult(FreshChroms(chromosomes), arg)
      [] op = "is_valid" -> MemIsValidResult(FreshChroms(chromosomes), arg)
      [] op = "contig" -> MemContigResult(FreshHeader(chromosomes), arg)
      [] OTHER -> MemIterateResult

\* C9: once the reader is built no step of any caller changes the chromosome
\* map or the contig list, and every call that completes, however the steps
\* of the callers interleave, returns what the same call returns when made
\* alone on a freshly built reader.
C9_ReadOnlyAfterConstruction ==
    [][status = "built" =>
         /\ chroms' = chroms
         /\ contigs' = contigs
         /\ header' = header
         /\ \A c \in Callers :
               call'[c].pc = "done" =>
                   call'[c].result = AloneResult(call'[c].op, call'[c].arg)]_vars

C9_Witness ==
    /\ status = "built"
    /\ call["t1"].pc = "done" /\ call["t1"].op = "query"
    /\ call["t1"].result.ok /\ call["t1"].result.value /= <<>>
    /\ call["t2"].pc = "slice"
    /\ call["t2"].arg.reference_name = call["t1"].arg.reference_name

GenomeSeq(n) == Genome[CHOOSE k \in 1..Len(Genome) : Genome[k].name = n].seq

\* C7: the bytes a query on the indexed reader returns do not depend on the
\* cache: in two runs of the same calls on the same file with any two
\* cache_size arguments the results are equal, whether answered from the
\* cached window or by a fetch, and they are the bases of the contig at
\* [start, end); a cache_size of 0 reaches the underlying reader as 0.
C7_CacheTransparent ==
    backend = "fai" =>
        /\ \A r \in Runs : cache_size[r] /= None => rd[r].capacity = cache_size[r]
        /\ flast.op = "query" =>
              /\ \A r1, r2 \in Runs : flast.result[r1] = flast.result[r2]
              /\ \A r \in Runs :
                    flast.result[r].ok =>
                        flast.result[r].value =
                            SubSeq(GenomeSeq(flast.arg.reference_name),
                                   flast.arg.start + 1, flast.arg.end)

C7_Witness ==
    /\ backend = "fai" /\ flast.op = "query"
    /\ cache_size[1] = 0 /\ cache_size[2] /= 0
    /\ rd[1].capacity = 0
    /\ ~flast.hit[1] /\ flast.hit[2]
    /\ flast.result[2].ok /\ Len(flast.result[2].value) >= 3
    /\ fasta.index[1].bases_per_line = 2

\* C8 as stated: after the reader has been closed, query, is_valid, contig
\* and iterate all fail with ClosedReaderError.
C8_AllOperationsFailClosed ==
    (backend = "fai" /\ exited
        /\ flast.op \in {"query", "is_valid", "contig", "iterate"})
    => \A r \in Runs : flast.result[r] = Raise("ClosedReaderError", "")

\* C8 amended: after the reader has been closed, query, is_valid and contig
\* fail with ClosedReaderError and iterate fails as it always does, with
\* NotImplementedError; leaving the with-block again does not fail.
C8_ClosedReaderRejectsLookups ==
    (backend = "fai" /\ exited) =>
        \A r \in Runs :
            /\ flast.op \in {"query", "is_valid", "contig"}
                  => flast.result[r] = Raise("ClosedReaderError", "")
            /\ flast.op = "iterate"
                  => flast.result[r] = Raise("NotImplementedError", MsgIterate)
            /\ flast.op = "exit" => flast.result[r].ok

C8_Witness ==
    /\ backend = "fai" /\ exited
    /\ flast.op = "query"
    /\ FaiValidate(fasta.index, flast.arg).ok
    /\ flast.arg.start < flast.arg.end
    /\ flast.result[1] = Raise("ClosedReaderError", "")

\* C10: on both readers a call of iterate, in whatever state it is made,
\* raises NotImplementedError, returns nothing and leaves the reader as it
\* was.
C10_IterateAlwaysRejected ==
    [][/\ (flast.op = "none" /\ flast'.op = "iterate") =>
             /\ \A r \in Runs :
                   flast'.result[r] = Raise("NotImplementedError", MsgIterate)
             /\ rd' = rd /\ fasta' = fasta /\ exited' = exited
       /\ (last.op = "none" /\ last'.op = "iterate") =>
             /\ last'.result = Raise("NotImplementedError", MsgIterate)
             /\ chroms' = chroms /\ header' = header /\ contigs' = contigs]_vars

C10_Witness ==
    /\ backend = "fai" /\ exited
    /\ flast.op = "iterate"
    /\ flast.result[1] = Raise("NotImplementedError", MsgIterate)

====
